---- MODULE Spec2Model ----
(***************************************************************************)
(* InterVA5.run (src/interva/interva5.py): the batch loop that turns       *)
(* verbal-autopsy records into cause-of-death result rows.                 *)
(*                                                                         *)
(* Numbers are exact rationals <<n, d>> in lowest terms (d > 0); the       *)
(* program computes in float64, so statements here are about the exact     *)
(* values the floats approximate.  Arrays keep the program's 0-based       *)
(* indices and are functions over 0..len-1.                                *)
(***************************************************************************)
EXTENDS Integers, Sequences, FiniteSets, TLC

(* ---------------------------------------------------------------------- *)
(* Exact arithmetic                                                        *)
(* ---------------------------------------------------------------------- *)
RECURSIVE GCD(_, _)
GCD(a, b) == IF b = 0 THEN a ELSE GCD(b, a % b)

Rat(n, d) == IF n = 0 THEN <<0, 1>> ELSE <<n \div GCD(n, d), d \div GCD(n, d)>>

Zero == Rat(0, 1)

One == Rat(1, 1)

RMul(x, y) ==
    LET g1 == GCD(x[1], y[2])
        g2 == GCD(y[1], x[2])
    IN  IF x[1] = 0 \/ y[1] = 0 THEN Zero
        ELSE <<(x[1] \div g1) * (y[1] \div g2), (x[2] \div g2) * (y[2] \div g1)>>

RDiv(x, y) == RMul(x, <<y[2], y[1]>>)

RAdd(x, y) ==
    LET g == GCD(x[2], y[2])
    IN  Rat(x[1] * (y[2] \div g) + y[1] * (x[2] \div g), (x[2] \div g) * y[2])

RLess(x, y) ==
    LET g == GCD(x[2], y[2])
    IN  x[1] * (y[2] \div g) < y[1] * (x[2] \div g)

\* sum(v[lo:hi]) of the program: the entries lo .. hi-1 (added pairwise by
\* halves: exact addition is associative, and the recursion stays shallow)
RECURSIVE SumRange(_, _, _)
SumRange(v, lo, hi) ==
    IF lo >= hi THEN Zero
    ELSE IF hi - lo = 1 THEN v[lo]
    ELSE LET mid == lo + ((hi - lo) \div 2)
         IN  RAdd(SumRange(v, lo, mid), SumRange(v, mid, hi))

\* amax(v[lo:hi]) (by halves, as SumRange)
RECURSIVE MaxRange(_, _, _)
MaxRange(v, lo, hi) ==
    IF hi - lo = 1 THEN v[lo]
    ELSE LET mid == lo + ((hi - lo) \div 2)
             l == MaxRange(v, lo, mid)
             r == MaxRange(v, mid, hi)
         IN  IF RLess(l, r) THEN r ELSE l

\* argmax(v[lo:hi]): the first position (relative to lo) holding the maximum
ArgMaxRange(v, lo, hi) ==
    LET m == MaxRange(v, lo, hi)
    IN  (CHOOSE k \in lo..(hi - 1) :
            /\ v[k] = m
            /\ \A h \in lo..(hi - 1) : v[h] = m => k <= h) - lo

\* Python's round(x * 100): round half to even
Round100(x) ==
    LET g == GCD(100, x[2])
        n == x[1] * (100 \div g)
        d == x[2] \div g
        q == n \div d
        r == n % d
    IN  IF 2 * r < d THEN q
        ELSE IF 2 * r > d THEN q + 1
        ELSE IF q % 2 = 0 THEN q ELSE q + 1

(* ---------------------------------------------------------------------- *)
(* Dimensions and the probability table (Probbase)                         *)
(* ---------------------------------------------------------------------- *)
\* rows of the table = values of a record
S == 354

\* columns of the table; columns 17 .. D-1 are the causes
D == 87

\* the symbolic grades and the numbers the program substitutes for them
GradeValue(g) ==
    CASE g = "I"  -> Rat(1, 1)
      [] g = "A+" -> Rat(4, 5)
      [] g = "A"  -> Rat(1, 2)
      [] g = "A-" -> Rat(1, 5)
      [] g = "B+" -> Rat(1, 10)
      [] g = "B"  -> Rat(1, 20)
      [] g = "B-" -> Rat(1, 50)
      [] g = "C+" -> Rat(1, 100)
      [] g = "C"  -> Rat(1, 200)
      [] g = "C-" -> Rat(1, 500)
      [] g = "D+" -> Rat(1, 1000)
      [] g = "D"  -> Rat(1, 2000)
      [] g = "D-" -> Rat(1, 10000)
      [] g = "E"  -> Rat(1, 100000)
      [] g = "N"  -> Zero
      [] g = ""   -> Zero

\* The tables a run is tried with (the sci argument).  Each is a full
\* 354 x 87 table given cell by cell; only column 5 (the expected answer of
\* a symptom) and the cause columns 17 .. 86 are read by the loop.
\*   flat: no symptom row singles out a cause in row 2
\*   peak: row 2 gives every Group B cause but one the grade N
Tables == {"flat", "peak"}

RawCell(t, r, c) ==
    IF c = 5 THEN
        (IF r = 20 THEN "Y" ELSE IF r = 21 THEN "N" ELSE "")
    ELSE IF c < 17 THEN ""
    ELSE IF r = 0 THEN
        (IF c = 17 THEN "A" ELSE IF c = 18 THEN "A-" ELSE IF c = 19 THEN "B+"
         ELSE IF c < 81 THEN "C+"
         ELSE IF c = 81 THEN "A-" ELSE "B-")
    ELSE IF r = 2 THEN
        (IF c < 20 THEN (IF t = "peak" THEN "N" ELSE "A")
         ELSE IF c < 81 THEN
            (IF t = "peak" THEN (IF c = 30 THEN "I" ELSE "N")
             ELSE IF c % 2 = 0 THEN "A" ELSE "A-")
         ELSE IF t = "peak" THEN "A" ELSE "N")
    ELSE IF r = 20 THEN
        (IF c < 20 THEN "A"
         ELSE IF c < 81 THEN (IF c = 30 THEN "I" ELSE "N")
         ELSE "A")
    ELSE IF r = 21 THEN
        (IF c < 20 THEN "A"
         ELSE IF c < 81 THEN (IF c = 31 THEN "I" ELSE "N")
         ELSE "A")
    ELSE "B"

\* probbaseV5 after the in-place substitution of the grades (columns 17..)
\* and the zeroing of the metadata cells of row 0
probbaseV5(t, r, c) ==
    IF c >= 17 THEN GradeValue(RawCell(t, r, c)) ELSE Zero

\* subst_vector[y]: 1 for "Y", 0 for "N", nan otherwise (row 0: column 5
\* was overwritten by 0, which is neither)
subst_vector(t, y) ==
    IF y = 0 THEN "nan"
    ELSE IF RawCell(t, y, 5) = "Y" THEN "1"
    ELSE IF RawCell(t, y, 5) = "N" THEN "0"
    ELSE "nan"

(* ---------------------------------------------------------------------- *)
(* Prevalence settings and the prior                                       *)
(* ---------------------------------------------------------------------- *)
\* str.lower() on the settings a run is tried with
Lower(s) ==
    CASE s = "H" -> "h"
      [] s = "L" -> "l"
      [] s = "V" -> "v"
      [] s = "X" -> "x"
      [] OTHER -> s

\* a validation that lets every setting through
ValidSettingAny(s) == TRUE

\* line 228
ValidSetting(s) == s \in {"h", "l", "v"}

\* lines 231-245: the three cells of Sys_Prior the settings overwrite; a
\* setting that is none of the three levels overwrites nothing
HivPrior(h, old) ==
    IF h = "h" THEN Rat(1, 20)
    ELSE IF h = "l" THEN Rat(1, 200)
    ELSE IF h = "v" THEN Rat(1, 100000)
    ELSE old

MalariaPrior24(m, old) ==
    IF m = "h" THEN Rat(1, 20)
    ELSE IF m = "l" THEN Rat(1, 200)
    ELSE IF m = "v" THEN Rat(1, 100000)
    ELSE old

MalariaPrior44(m, old) ==
    IF m = "h" THEN Rat(1, 20)
    ELSE IF m = "l" THEN Rat(1, 100000)
    ELSE IF m = "v" THEN Rat(1, 100000)
    ELSE old

\* Sys_Prior as built before the loop: row 0 of the table, then the three
\* cells the settings overwrite (h and m are the lower-cased settings)
BuildPrior(t, h, m) ==
    [c \in 0..(D - 1) |->
        IF c = 22 THEN HivPrior(h, probbaseV5(t, 0, c))
        ELSE IF c = 24 THEN MalariaPrior24(m, probbaseV5(t, 0, c))
        ELSE IF c = 44 THEN MalariaPrior44(m, probbaseV5(t, 0, c))
        ELSE probbaseV5(t, 0, c)]

(* ---------------------------------------------------------------------- *)
(* Input records                                                           *)
(* ---------------------------------------------------------------------- *)
\* longest batch tried
MaxBatch == 2

\* The records a batch is made of.  A record is S raw answers: "y"/"Y"/"1"
\* affirmative, "n"/"N"/"0" negative, anything else ("." here, and "num1",
\* the number 1 rather than the string) missing.  Positions 5-11 are the age
\* indicators, 3-4 the sex indicators, 20-327 the symptoms.
\*   noage   no age indicator                        (excluded)
\*   nosex   no sex indicator                        (excluded)
\*   nosym   no affirmative symptom                  (excluded)
\*   zero    accepted, no answer equals the expected one
\*   one     accepted, symptom 20 equals the expected "Y"
\*   nanid   accepted, symptom 21 equals the expected "N"; identifier missing
\*   two     accepted, symptoms 20 and 21 both equal the expected answer
RecordNames == {"noage", "nosex", "nosym", "zero", "one", "nanid", "two"}

RawAnswer(name, y) ==
    CASE name = "noage" ->
            (IF y = 3 THEN "y" ELSE IF y = 20 THEN "y" ELSE ".")
      [] name = "nosex" ->
            (IF y = 5 THEN "y" ELSE IF y = 20 THEN "y" ELSE ".")
      [] name = "nosym" ->
            (IF y = 5 THEN "y" ELSE IF y = 3 THEN "y" ELSE IF y = 20 THEN "n"
             ELSE IF y = 330 THEN "y" ELSE ".")
      [] name = "zero" ->
            (IF y = 5 THEN "y" ELSE IF y = 3 THEN "Y" ELSE IF y = 22 THEN "y"
             ELSE IF y = 23 THEN "num1" ELSE ".")
      [] name = "one" ->
            (IF y = 7 THEN "1" ELSE IF y = 3 THEN "y" ELSE IF y = 4 THEN "n"
             ELSE IF y = 16 THEN "y" ELSE IF y = 20 THEN "y" ELSE ".")
      [] name = "nanid" ->
            (IF y = 6 THEN "y" ELSE IF y = 4 THEN "y" ELSE IF y = 16 THEN "n"
             ELSE IF y = 21 THEN "N" ELSE IF y = 22 THEN "Y" ELSE ".")
      [] name = "two" ->
            (IF y = 5 THEN "y" ELSE IF y = 4 THEN "Y" ELSE IF y = 16 THEN "y"
             ELSE IF y = 20 THEN "y" ELSE IF y = 21 THEN "0" ELSE ".")

\* column 0 of the input: the identifier ("NaN": missing)
RawId(name) ==
    CASE name = "noage" -> "d1"
      [] name = "nosex" -> "d2"
      [] name = "nosym" -> "d3"
      [] name = "zero"  -> "d4"
      [] name = "one"   -> "d5"
      [] name = "nanid" -> "NaN"
      [] name = "two"   -> "d7"

\* one row of va_data as first read: the identifier, then the answers
RawRow(name) == [y \in 0..(S - 1) |-> IF y = 0 THEN RawId(name) ELSE RawAnswer(name, y)]

isna(x) == x = "NaN" \/ x = "nan"

\* lines 281-293: the in-place canonicalisation of row i of va_data
\* ("1"/"0" stand for the numbers 1/0 the strings are then replaced by)
Canonical(row) ==
    [y \in 0..(S - 1) |->
        IF y = 0 THEN "0"
        ELSE IF row[y] \in {"y", "Y", "1"} THEN "1"
        ELSE IF row[y] \in {"n", "N", "0"} THEN "0"
        ELSE "nan"]

\* nansum(v[lo:hi]) of a canonical row
nansum(v, lo, hi) == Cardinality({y \in lo..(hi - 1) : v[y] = "1"})

\* the reason a canonical row is excluded for, "" when it is accepted
ExclusionReason(v) ==
    IF nansum(v, 5, 12) < 1 THEN " Error in age indicator: Not Specified"
    ELSE IF nansum(v, 3, 5) < 1 THEN " Error in sex indicator: Not Specified"
    ELSE IF nansum(v, 20, 328) < 1 THEN " Error in indicators: No symptoms specified"
    ELSE ""

\* datacheck5 of the vacheck package: an external, deterministic repair of
\* one record.  Its stand-in withdraws the "recently pregnant" answer (16)
\* of a record whose male indicator (3) is affirmative.
datacheck5(v) ==
    IF v[3] = "1" /\ ~isna(v[16])
    THEN [v EXCEPT ![16] = "nan"]
    ELSE v

\* new_input: 1 where the checked answer is present and is the expected one
new_input(t, v) ==
    [y \in 0..(S - 1) |->
        IF y >= 1 /\ ~isna(v[y]) /\ v[y] = subst_vector(t, y) THEN 1 ELSE 0]

\* temp = new_input[1:][new_input[1:] == 1]: the selected VALUES, all 1
OnesOf(ni, hi) ==
    LET sel == {y \in 1..(hi - 1) : ni[y] = 1}
    IN  [k \in 1..Cardinality(sel) |-> 1]

\* lines 332-334: 0 becomes 1, position 0 becomes 0, missing becomes 0
Substituted(v) ==
    [y \in 0..(S - 1) |-> IF y = 0 THEN 0 ELSE IF isna(v[y]) THEN 0 ELSE 1]

\* lines 335-340, on the substituted record
ReproductiveAge(sv) ==
    IF sv[4] = 1 /\ (sv[16] = 1 \/ sv[17] = 1 \/ sv[18] = 1) THEN 1 ELSE 0

(* ---------------------------------------------------------------------- *)
(* Inference: one pass of the per-symptom loop                             *)
(* ---------------------------------------------------------------------- *)
\* NormGroup with the group's sum taken one entry short
NormGroupShortSum(p, lo, hi) ==
    LET temp_sum == SumRange(p, lo, hi - 1)
    IN  IF RLess(Zero, temp_sum)
        THEN [j \in DOMAIN p |-> IF j >= lo /\ j < hi THEN RDiv(p[j], temp_sum) ELSE p[j]]
        ELSE p

\* prob[lo:hi] = prob[lo:hi] / temp_sum, only when temp_sum > 0
NormGroup(p, lo, hi) ==
    LET temp_sum == SumRange(p, lo, hi)
    IN  IF RLess(Zero, temp_sum)
        THEN [j \in DOMAIN p |-> IF j >= lo /\ j < hi THEN RDiv(p[j], temp_sum) ELSE p[j]]
        ELSE p

\* the row the loop multiplies by for the loop value temp_sub
UpdateRow(temp_sub) == temp_sub + 1

\* lines 345-359 for one temp_sub: multiply by a table row, then normalise
\* Group A (0-2), Group B (3-63) and Group C (64-69), each on its own
UpdateStep(t, p, temp_sub) ==
    LET m == [j \in 0..(D - 18) |-> RMul(p[j], probbaseV5(t, UpdateRow(temp_sub), j + 17))]
    IN  NormGroup(NormGroup(NormGroup(m, 0, 3), 3, 64), 64, 70)

(* ---------------------------------------------------------------------- *)
(* The three classifiers                                                   *)
(* ---------------------------------------------------------------------- *)
\* prob_names: the cause texts, one per position of prob (distinct labels)
prob_names(j) == ToString(j)

Blank == " "

\* the same rules read as one if/elif chain, where the first rule that
\* applies decides
PregnancyClassifierElif(p, reproductiveAge) ==
    LET prob_A_sum == SumRange(p, 0, 3)
        mx  == MaxRange(p, 0, 3)
        loc == ArgMaxRange(p, 0, 3)
        tenth == Rat(1, 10)
    IN  IF prob_A_sum = Zero \/ reproductiveAge = 0 THEN <<"n/a", Blank>>
        ELSE IF RLess(mx, tenth) THEN <<"indeterminate", Blank>>
        ELSE IF loc = 0
             THEN <<"Not pregnant or recently delivered",
                    ToString(Round100(RDiv(p[1], prob_A_sum)))>>
        ELSE IF loc = 1
             THEN <<"Pregnancy ended within 6 weeks of death",
                    ToString(Round100(RDiv(p[1], prob_A_sum)))>>
        ELSE <<"Pregnant at death", ToString(Round100(RDiv(p[2], prob_A_sum)))>>

\* lines 365-382: sequential, unguarded assignments; the last one wins
PregnancyClassifier(p, reproductiveAge) ==
    LET prob_A_sum == SumRange(p, 0, 3)
        mx  == MaxRange(p, 0, 3)
        loc == ArgMaxRange(p, 0, 3)
        tenth == Rat(1, 10)
        s0 == <<Blank, Blank>>
        s1 == IF prob_A_sum = Zero \/ reproductiveAge = 0 THEN <<"n/a", Blank>> ELSE s0
        s2 == IF RLess(mx, tenth) /\ reproductiveAge = 1 THEN <<"indeterminate", Blank>> ELSE s1
        s3 == IF loc = 0 /\ ~RLess(p[0], tenth) /\ reproductiveAge = 1
              THEN <<"Not pregnant or recently delivered",
                     ToString(Round100(RDiv(p[1], prob_A_sum)))>>
              ELSE s2
        s4 == IF loc = 1 /\ ~RLess(p[1], tenth) /\ reproductiveAge = 1
              THEN <<"Pregnancy ended within 6 weeks of death",
                     ToString(Round100(RDiv(p[1], prob_A_sum)))>>
              ELSE s3
        s5 == IF loc = 2 /\ ~RLess(p[2], tenth) /\ reproductiveAge = 1
              THEN <<"Pregnant at death",
                     ToString(Round100(RDiv(p[2], prob_A_sum)))>>
              ELSE s4
    IN  s5

\* numpy.delete(v, k) of an array of n entries
Delete(v, n, k) == [x \in 0..(n - 2) |-> IF x < k THEN v[x] ELSE v[x + 1]]

\* the name the ranking reads for position loc of its working slice:
\* prob_temp_names is never shortened (drop() returns a new Series that the
\* program discards), so loc indexes the full Group B names
RankedName(loc) == prob_names(3 + loc)

\* a lower threshold than the program's
IndeterminateThresholdLow == Rat(3, 10)

\* line 391: below this maximum no cause is reported
IndeterminateThreshold == Rat(2, 5)

\* lines 385-419.  raised: the list comprehension of line 417 calls float()
\* on the three empty lists top3 was created with, which raises TypeError.
\* The fields hold the local variables at that point.
CauseRanker(p) ==
    LET prob_B == [k \in 0..60 |-> p[3 + k]]
        mxB == MaxRange(prob_B, 0, 61)
        half == RMul(Rat(1, 2), mxB)
        max1_loc == ArgMaxRange(prob_B, 0, 61)
        t1 == Delete(prob_B, 61, max1_loc)
        mx2 == MaxRange(t1, 0, 60)
        max2_loc == ArgMaxRange(t1, 0, 60)
        t2 == Delete(t1, 60, max2_loc)
        mx3 == MaxRange(t2, 0, 59)
        max3_loc == ArgMaxRange(t2, 0, 59)
    IN  IF RLess(mxB, IndeterminateThreshold)
        THEN [cause1 |-> Blank, lik1 |-> Blank, cause2 |-> Blank, lik2 |-> Blank,
              cause3 |-> Blank, lik3 |-> Blank, indet |-> 100, raised |-> FALSE]
        ELSE [cause1 |-> RankedName(max1_loc),
              lik1   |-> ToString(Round100(mxB)),
              cause2 |-> IF RLess(mx2, half) THEN Blank ELSE RankedName(max2_loc),
              lik2   |-> IF RLess(mx2, half) THEN Blank ELSE ToString(Round100(mx2)),
              cause3 |-> IF RLess(mx3, half) THEN Blank ELSE RankedName(max3_loc),
              lik3   |-> IF RLess(mx3, half) THEN Blank ELSE ToString(Round100(mx3)),
              indet  |-> 0,
              raised |-> TRUE]

\* the maximum the comorbidity decision is taken on: amax(prob_C) as read
\* on line 425, before the slice is divided by its sum
ComcatMax(p) == MaxRange(p, 64, 70)

\* lines 423-433
ComorbidityClassifier(p) ==
    LET prob_c_max == ComcatMax(p)
        prob_C == NormGroup(p, 64, 70)
    IN  IF RLess(prob_c_max, Rat(1, 2))
        THEN <<"Multiple", Blank>>
        ELSE <<prob_names(64 + ArgMaxRange(prob_C, 64, 70)), ToString(Round100(prob_c_max))>>

\* va5(): the result row, a list of 15 entries
va5(id, malprev, hivprev, preg, rank, com, wholeprob) ==
    <<id, malprev, hivprev, preg[1], preg[2],
      rank.cause1, rank.lik1, rank.cause2, rank.lik2, rank.cause3, rank.lik3,
      rank.indet, com[1], com[2], wholeprob>>

\* the row of one record from the working vector p
ResultRow(id, malprev, hivprev, reproductiveAge, p) ==
    va5(id, malprev, hivprev, PregnancyClassifier(p, reproductiveAge),
        CauseRanker(p), ComorbidityClassifier(p), p)

(* ---------------------------------------------------------------------- *)
(* State of one call of run()                                              *)
(* ---------------------------------------------------------------------- *)
VARIABLES
    va_input,        \* the batch: record names, position 0 .. N-1
    hiv, malaria,    \* the prevalence settings (lower-cased by run)
    write,           \* self.write
    sci,             \* the table
    shares,          \* TRUE: Series(prob) shares prob's buffer (no copy)
    canonical,       \* the rows of va_data already canonicalised in place
    Sys_Prior,       \* the prior, length D; prob is the view Sys_Prior[17:D]
    i,               \* loop index of the record loop
    pc,              \* "start", "loop", "infer", "done", "error"
    err,             \* the exception run ended with
    errors,          \* the exclusion log (None until something is added)
    temp,            \* what is left of temp in the per-symptom loop
    steps,           \* per-symptom passes done for the current record
    reproductiveAge, \* flag of the current record
    locals,          \* pregnancy, cause ranking and comorbidity of the record just classified
    ID_list,         \* list of identifiers of the accepted records
    VA_result,       \* list of N rows, [] until a record is accepted
    out              \* the returned dictionary (ID and VA5)

vars == <<va_input, hiv, malaria, write, sci, shares, canonical, Sys_Prior,
          i, pc, err, errors, temp, steps, reproductiveAge, locals, ID_list, VA_result, out>>

N == Cardinality(DOMAIN va_input)

\* row k of the array va_data: as read from the input until the loop has
\* rewritten it in place (lines 281-293), canonical from then on
va_data(k) == IF k \in canonical THEN Canonical(RawRow(va_input[k])) ELSE RawRow(va_input[k])

\* prob = Sys_Prior[17:D]: a view, not a copy
prob == [j \in 0..(D - 18) |-> Sys_Prior[j + 17]]

\* writing q through the view
WriteThrough(q) == [c \in 0..(D - 1) |-> IF c >= 17 THEN q[c - 17] ELSE Sys_Prior[c]]

\* the settings a run is tried with, as passed by the caller
SettingPairs == {<<"H", "l">>, <<"v", "h">>, <<"x", "h">>, <<"l", "X">>}

Batches == UNION {[0..(n - 1) -> RecordNames] : n \in 0..MaxBatch}

\* before a record is classified
NoLocals == [preg |-> <<Blank, Blank>>, rank |-> <<>>, com |-> <<>>]

Init ==
    /\ va_input \in Batches
    /\ \E sp \in SettingPairs : hiv = sp[1] /\ malaria = sp[2]
    /\ write \in BOOLEAN
    /\ sci \in Tables
    /\ shares \in BOOLEAN
    /\ canonical = {}
    /\ Sys_Prior = [c \in 0..(D - 1) |-> Zero]
    /\ i = 0
    /\ pc = "start"
    /\ err = ""
    /\ errors = "None"
    /\ temp = <<>>
    /\ steps = 0
    /\ reproductiveAge = 0
    /\ locals = NoLocals
    /\ ID_list = <<>>
    /\ VA_result = <<>>
    /\ out = [ID |-> <<>>, VA5 |-> <<>>]

\* lines 128-267: everything before the record loop.  The output directory
\* is given and the table and the input have the required shape (354 rows
\* by 87 columns, 354 values per record, last column i459o), so that of the
\* checks made there only "no data input" and the settings can fail.
Start ==
    /\ pc = "start"
    /\ IF N < 1
       THEN \* line 182, before the settings are lower-cased
            /\ pc' = "error"
            /\ err' = "IOError: no data input"
            /\ UNCHANGED <<hiv, malaria, Sys_Prior, VA_result>>
       ELSE IF ~ValidSetting(Lower(hiv)) \/ ~ValidSetting(Lower(malaria))
       THEN /\ pc' = "error"
            /\ err' = "IOError: the HIV and Malaria indicator"
            /\ hiv' = Lower(hiv)
            /\ malaria' = Lower(malaria)
            /\ UNCHANGED <<Sys_Prior, VA_result>>
       ELSE /\ pc' = "loop"
            /\ err' = err
            /\ hiv' = Lower(hiv)
            /\ malaria' = Lower(malaria)
            /\ Sys_Prior' = BuildPrior(sci, Lower(hiv), Lower(malaria))
            /\ VA_result' = [k \in 0..(N - 1) |-> <<>>]
    /\ UNCHANGED <<va_input, write, sci, shares, canonical, i, errors, temp,
                   steps, reproductiveAge, locals, ID_list, out>>

\* lines 270-340: canonicalise record i in place, apply the three exclusion
\* checks, run the data check and select the informative symptoms
CheckRecord ==
    /\ pc = "loop"
    /\ i < N
    /\ LET input_current == Canonical(va_data(i))
           reason == ExclusionReason(input_current)
           checked == datacheck5(input_current)
       IN  /\ canonical' = canonical \cup {i}
           /\ IF reason # "" /\ write
              THEN \* errors + index_current with errors = None: TypeError
                   /\ pc' = "error"
                   /\ err' = "TypeError: NoneType + str"
                   /\ UNCHANGED <<i, temp, steps, reproductiveAge>>
              ELSE IF reason # ""
              THEN \* continue
                   /\ i' = i + 1
                   /\ UNCHANGED <<pc, err, temp, steps, reproductiveAge>>
              ELSE /\ pc' = "infer"
                   /\ temp' = OnesOf(new_input(sci, checked), S)
                   /\ steps' = 0
                   /\ reproductiveAge' = ReproductiveAge(Substituted(checked))
                   /\ UNCHANGED <<i, err>>
    /\ UNCHANGED <<va_input, hiv, malaria, write, sci, shares, Sys_Prior,
                   errors, locals, ID_list, VA_result, out>>

\* what the rows already assembled show after prob was written to: a row
\* whose WHOLEPROB shares prob's buffer shows the new values
Aliased(rows, q) ==
    [k \in DOMAIN rows |->
        IF shares /\ rows[k] # <<>> THEN [rows[k] EXCEPT ![15] = q] ELSE rows[k]]

\* lines 344-359: one pass of the per-symptom loop
Update ==
    /\ pc = "infer"
    /\ temp # <<>>
    /\ LET q == UpdateStep(sci, prob, Head(temp))
       IN  /\ Sys_Prior' = WriteThrough(q)
           /\ VA_result' = Aliased(VA_result, q)
    /\ temp' = Tail(temp)
    /\ steps' = steps + 1
    /\ UNCHANGED <<va_input, hiv, malaria, write, sci, shares, canonical, i, pc,
                   err, errors, reproductiveAge, locals, ID_list, out>>

\* save_va5 / save_va5_prob with write = True: numpy.delete() and savetxt()
\* are handed a list holding strings and a Series, and raise
SaveRaises == write

\* lines 360-444: classify, assemble the row, save it
Classify ==
    /\ pc = "infer"
    /\ temp = <<>>
    /\ LET index_current == va_input[i]
           row == ResultRow(RawId(index_current), malaria, hiv, reproductiveAge, prob)
       IN  IF CauseRanker(prob).raised
           THEN /\ locals' = [preg |-> PregnancyClassifier(prob, reproductiveAge),
                           rank |-> CauseRanker(prob), com |-> <<>>]
                /\ pc' = "error"
                /\ err' = "TypeError: float() of a list"
                /\ UNCHANGED <<i, ID_list, VA_result>>
           ELSE /\ locals' = [preg |-> PregnancyClassifier(prob, reproductiveAge),
                           rank |-> CauseRanker(prob),
                           com |-> ComorbidityClassifier(prob)]
                /\ ID_list' = Append(ID_list, RawId(index_current))
                /\ VA_result' = [VA_result EXCEPT ![i] = row]
                /\ IF SaveRaises
                   THEN /\ pc' = "error"
                        /\ err' = "TypeError: savetxt"
                        /\ i' = i
                   ELSE /\ pc' = "loop"
                        /\ err' = err
                        /\ i' = i + 1
    /\ UNCHANGED <<va_input, hiv, malaria, write, sci, shares, canonical,
                   Sys_Prior, errors, temp, steps, reproductiveAge, out>>

\* positions (0-based) of the missing identifiers in ID_list
nan_indices == {k - 1 : k \in {h \in 1..Len(ID_list) : isna(ID_list[h])}}

\* Series/DataFrame.drop(labels): the entries whose label is not in labels;
\* entry k of a freshly built frame has the label k - 1
Drop(list, labels) ==
    SelectSeq([k \in 1..Len(list) |-> [label |-> k - 1, val |-> list[k]]],
              LAMBDA e : e.label \notin labels)

\* DataFrame(VA_result): one row per position, the [] of a record that was
\* never assembled included
Frame == [k \in 1..N |-> VA_result[k - 1]]

\* lines 445-477: after the loop
Finish ==
    /\ pc = "loop"
    /\ i = N
    /\ IF write
       THEN \* str + list in the argument of info(): TypeError
            /\ pc' = "error"
            /\ err' = "TypeError: str + list"
            /\ out' = out
       ELSE IF \A k \in 0..(N - 1) : VA_result[k] = <<>>
       THEN \* a frame of N empty rows has no column to rename: ValueError
            /\ pc' = "error"
            /\ err' = "ValueError: Length mismatch"
            /\ out' = out
       ELSE /\ pc' = "done"
            /\ err' = err
            /\ out' = [ID |-> Drop(ID_list, nan_indices), VA5 |-> Drop(Frame, nan_indices)]
    /\ UNCHANGED <<va_input, hiv, malaria, write, sci, shares, canonical,
                   Sys_Prior, i, errors, temp, steps, reproductiveAge, locals,
                   ID_list, VA_result>>

Next == Start \/ CheckRecord \/ Update \/ Classify \/ Finish

Spec == Init /\ [][Next]_vars

(* ---------------------------------------------------------------------- *)
(* The classifiers on their own: a working vector drawn from a grid, then  *)
(* the cause ranking and the comorbidity classification applied to it      *)
(* ---------------------------------------------------------------------- *)
\* Group B values tried: k/20 for k in 0 .. MaxGrid
MaxGrid == 10

\* Group C slices are tried times k/2 for k in 1 .. MaxScale
MaxScale == 4

CSlices ==
    { <<Rat(3, 5), Rat(1, 10), Rat(1, 10), Rat(1, 10), Rat(1, 20), Rat(1, 20)>>,
      <<Rat(3, 10), Rat(3, 10), Rat(1, 5), Rat(1, 10), Rat(1, 10), Zero>>,
      <<Rat(1, 10), Rat(9, 10), Zero, Zero, Zero, Zero>>,
      <<Rat(1, 2), Rat(1, 2), Zero, Zero, Zero, Zero>>,
      <<Zero, Zero, Zero, Zero, Zero, Zero>> }

\* a vector of length D whose Group B holds b1 and b2 among small weights
\* and whose Group C is the slice cs times scale
SliceVector(b1, b2, cs, scale) ==
    [c \in 0..(D - 1) |->
        IF c < 17 THEN Zero
        ELSE IF c < 20 THEN Rat(1, 4)
        ELSE IF c = 25 THEN b1
        ELSE IF c = 60 THEN b2
        ELSE IF c < 81 THEN Rat(1, 100)
        ELSE RMul(scale, cs[c - 80])]

InitFn ==
    /\ va_input = <<>>
    /\ hiv = "h"
    /\ malaria = "h"
    /\ write = FALSE
    /\ sci = "flat"
    /\ shares = FALSE
    /\ canonical = {}
    /\ \E k1 \in 0..MaxGrid, k2 \in 0..MaxGrid, cs \in CSlices, m \in 1..MaxScale :
            Sys_Prior = SliceVector(Rat(k1, 20), Rat(k2, 20), cs, Rat(m, 2))
    /\ i = 0
    /\ pc = "fn"
    /\ err = ""
    /\ errors = "None"
    /\ temp = <<>>
    /\ steps = 0
    /\ reproductiveAge = 0
    /\ locals = NoLocals
    /\ ID_list = <<>>
    /\ VA_result = <<>>
    /\ out = [ID |-> <<>>, VA5 |-> <<>>]

RankSlice ==
    /\ pc = "fn"
    /\ pc' = "fn_ranked"
    /\ locals' = [locals EXCEPT !.rank = CauseRanker(prob)]
    /\ UNCHANGED <<va_input, hiv, malaria, write, sci, shares, canonical, Sys_Prior, i,
                   err, errors, temp, steps, reproductiveAge, ID_list, VA_result, out>>

ComcatSlice ==
    /\ pc = "fn_ranked"
    /\ pc' = "fn_done"
    /\ locals' = [locals EXCEPT !.com = ComorbidityClassifier(prob)]
    /\ UNCHANGED <<va_input, hiv, malaria, write, sci, shares, canonical, Sys_Prior, i,
                   err, errors, temp, steps, reproductiveAge, ID_list, VA_result, out>>

NextFn == RankSlice \/ ComcatSlice

SpecFn == InitFn /\ [][NextFn]_vars

(* ---------------------------------------------------------------------- *)
(* The pregnancy classifier as a function of the Group A slice and the     *)
(* reproductive-age flag                                                   *)
(* ---------------------------------------------------------------------- *)
\* a combined vector whose Group A slice is <<a0, a1, a2>>
GroupAVector(a0, a1, a2) ==
    [c \in 0..(D - 1) |->
        IF c < 17 THEN Zero
        ELSE IF c = 17 THEN a0
        ELSE IF c = 18 THEN a1
        ELSE IF c = 19 THEN a2
        ELSE Rat(1, 100)]

InitPreg ==
    /\ va_input = <<>>
    /\ hiv = "h"
    /\ malaria = "h"
    /\ write = FALSE
    /\ sci = "flat"
    /\ shares = FALSE
    /\ canonical = {}
    /\ \E k0 \in 0..MaxGrid, k1 \in 0..MaxGrid, k2 \in 0..MaxGrid :
            Sys_Prior = GroupAVector(Rat(k0, 20), Rat(k1, 20), Rat(k2, 20))
    /\ i = 0
    /\ pc = "preg"
    /\ err = ""
    /\ errors = "None"
    /\ temp = <<>>
    /\ steps = 0
    /\ reproductiveAge \in {0, 1}
    /\ locals = NoLocals
    /\ ID_list = <<>>
    /\ VA_result = <<>>
    /\ out = [ID |-> <<>>, VA5 |-> <<>>]

PregSlice ==
    /\ pc = "preg"
    /\ pc' = "preg_done"
    /\ locals' = [locals EXCEPT !.preg = PregnancyClassifier(prob, reproductiveAge)]
    /\ UNCHANGED <<va_input, hiv, malaria, write, sci, shares, canonical, Sys_Prior, i,
                   err, errors, temp, steps, reproductiveAge, ID_list, VA_result, out>>

NextPreg == PregSlice

SpecPreg == InitPreg /\ [][NextPreg]_vars

(* ---------------------------------------------------------------------- *)
(* Properties                                                              *)
(* ---------------------------------------------------------------------- *)
\* the canonical form of record k of the batch, whether or not reached yet
CanonicalOf(k) == Canonical(RawRow(va_input[k]))

IsExcluded(k) == ExclusionReason(CanonicalOf(k)) # ""

\* the symptoms of record k whose checked answer is the expected one
InformativeSet(k) ==
    {y \in 1..(S - 1) : new_input(sci, datacheck5(CanonicalOf(k)))[y] = 1}

\* the prior as built: what prob should be at the start of every record
PriorAsBuilt == [j \in 0..(D - 18) |-> BuildPrior(sci, Lower(hiv), Lower(malaria))[j + 17]]

\* record k has been through the loop body: the loop moved past it, or run
\* ended with an exception while working on it
Handled(k) ==
    /\ k \in canonical
    /\ k < i \/ (k = i /\ pc = "error")

\* C1: the result row of a record depends only on the record, the table and
\* the settings: the prior holds its as-built values at the start of every
\* record, and two positions of a batch holding the same record get the
\* same row.
C1_RowDependsOnRecordOnly ==
    /\ (pc = "loop" /\ i < N) => prob = PriorAsBuilt
    /\ \A k1 \in DOMAIN VA_result, k2 \in DOMAIN VA_result :
          (/\ va_input[k1] = va_input[k2]
           /\ VA_result[k1] # <<>>
           /\ VA_result[k2] # <<>>) => VA_result[k1] = VA_result[k2]

\* C2: the row just assembled for an accepted record with no informative
\* symptom carries the prior as built, element for element, at any
\* position of the batch.
C2_ZeroInformativeGivesPrior ==
    \A k \in DOMAIN VA_result :
        (/\ pc = "loop"
         /\ k = i - 1
         /\ VA_result[k] # <<>>
         /\ InformativeSet(k) = {}) => VA_result[k][15] = PriorAsBuilt

\* C3: after every pass of the per-symptom loop (multiplication followed by
\* the three normalisations) each group of the working vector sums to 0 or
\* to exactly 1.
C3_GroupSums ==
    (pc = "infer" /\ steps > 0) =>
        /\ SumRange(prob, 0, 3) \in {Zero, One}
        /\ SumRange(prob, 3, 64) \in {Zero, One}
        /\ SumRange(prob, 64, 70) \in {Zero, One}

\* a second pass of a record that is not the first of its batch, with one
\* group summing to 0 and the others to 1
C3_Witness ==
    /\ pc = "infer"
    /\ steps = 2
    /\ i >= 1
    /\ SumRange(prob, 0, 3) = One
    /\ SumRange(prob, 3, 64) = One
    /\ SumRange(prob, 64, 70) = Zero

\* the Group B columns c of table row y such that the row is 1.0 at c and 0
\* at every other Group B column
PeakColumns(y) ==
    {c \in 20..80 :
        /\ probbaseV5(sci, y, c) = One
        /\ \A c2 \in 20..80 : c2 # c => probbaseV5(sci, y, c2) = Zero}

\* C4: an accepted record with exactly one informative symptom, whose table
\* row is 0 on Group B except 1.0 at one cause of nonzero prior weight, gets
\* that cause as cause1 with likelihood 100.
C4_SinglePeakSymptom ==
    \A k \in DOMAIN va_input :
        (/\ Handled(k)
         /\ ~IsExcluded(k)
         /\ Cardinality(InformativeSet(k)) = 1) =>
            \A y \in InformativeSet(k) : \A c \in PeakColumns(y) :
                PriorAsBuilt[c - 17] # Zero =>
                    /\ VA_result[k] # <<>>
                    /\ VA_result[k][6] = prob_names(c - 17)
                    /\ VA_result[k][7] = "100"

\* C5: a Group B slice whose maximum is below 0.4 is ranked as three blank
\* causes, three blank likelihoods and indeterminacy 100.
C5_BelowThresholdBlank ==
    (pc \in {"fn_ranked", "fn_done"} /\ RLess(MaxRange(prob, 3, 64), Rat(2, 5))) =>
        /\ locals.rank.cause1 = Blank /\ locals.rank.lik1 = Blank
        /\ locals.rank.cause2 = Blank /\ locals.rank.lik2 = Blank
        /\ locals.rank.cause3 = Blank /\ locals.rank.lik3 = Blank
        /\ locals.rank.indet = 100

\* a ranked slice whose maximum is 0.35
C5_Witness ==
    /\ pc = "fn_ranked"
    /\ MaxRange(prob, 3, 64) = Rat(7, 20)
    /\ locals.rank.indet = 100
    /\ locals.rank.cause1 = Blank

\* C6: the comorbidity label and likelihood are decided on the maximum of
\* the Group C slice after it has been divided by its (positive) sum:
\* below 0.5 "Multiple" and no likelihood, else the name at the argmax and
\* round(100 x that maximum); so a slice and its positive multiples agree.
C6_ComorbidityOnNormalizedMax ==
    pc = "fn_done" =>
        LET normalized == NormGroup(prob, 64, 70)
            m == MaxRange(normalized, 64, 70)
        IN  IF RLess(m, Rat(1, 2))
            THEN locals.com = <<"Multiple", Blank>>
            ELSE locals.com = <<prob_names(64 + ArgMaxRange(normalized, 64, 70)),
                                ToString(Round100(m))>>

\* the labels (input positions) of the rows of the returned VA5 table
VA5Labels == {out.VA5[e].label : e \in 1..Len(out.VA5)}

\* C7: a record with no affirmative age indicator has no row in the
\* returned VA5 table and no entry in the returned ID list.
C7_ExcludedNotInResult ==
    pc = "done" =>
        \A k \in DOMAIN va_input :
            nansum(CanonicalOf(k), 5, 12) < 1 =>
                /\ k \notin VA5Labels
                /\ Len(out.ID) <= Cardinality({h \in DOMAIN va_input : ~IsExcluded(h)})

\* C8: the returned VA5 table holds exactly the rows of the accepted
\* records whose identifier is present, in input order.
C8_ExactlyIdentifiedAccepted ==
    pc = "done" =>
        out.VA5 = SelectSeq([k \in 1..N |-> [label |-> k - 1, val |-> VA_result[k - 1]]],
                            LAMBDA e : /\ ~IsExcluded(e.label)
                                       /\ ~isna(RawId(va_input[e.label])))

\* a setting that, compared case-insensitively, is none of h, l, v
InvalidLevel(s) == s \notin {"h", "l", "v", "H", "L", "V"}

\* C9: with an invalid prevalence setting run never reaches the record
\* loop: it is still before it or has failed, no record has been
\* canonicalised and no identifier or row has been collected.
C9_InvalidSettingFailsFirst ==
    (InvalidLevel(hiv) \/ InvalidLevel(malaria)) =>
        /\ pc \in {"start", "error"}
        /\ canonical = {}
        /\ i = 0
        /\ ID_list = <<>>
        /\ VA_result = <<>>

\* run has failed on an invalid setting with a full batch waiting
C9_Witness ==
    /\ InvalidLevel(malaria)
    /\ pc = "error"
    /\ err = "IOError: the HIV and Malaria indicator"
    /\ N = MaxBatch
    /\ canonical = {}

\* C10: an excluded record raises nothing: run does not end with an
\* exception on it, and where the log is kept (write) its reason is in the
\* log, so that the loop goes on to the next record.
C10_ExcludedIsSkipped ==
    \A k \in canonical :
        IsExcluded(k) =>
            /\ ~(pc = "error" /\ i = k)
            /\ write => errors # "None"


\* C11: once validation has passed, classification is total: every accepted
\* record the loop has worked on has its result row, whatever its Group B
\* maximum.
C11_ClassificationTotal ==
    \A k \in DOMAIN va_input :
        (Handled(k) /\ ~IsExcluded(k)) => VA_result[k] # <<>>

\* the n-th smallest element of a set of numbers
NthSmallest(set, n) == CHOOSE y \in set : Cardinality({z \in set : z < y}) = n - 1

\* C12: the rows the per-symptom loop multiplies by are the table rows of
\* the informative symptoms of the record, each once: what is left of the
\* loop selects exactly the informative symptoms not yet applied.
C12_MultipliesInformativeRows ==
    pc = "infer" =>
        /\ Len(temp) + steps = Cardinality(InformativeSet(i))
        /\ \A k \in 1..Len(temp) :
              UpdateRow(temp[k]) = NthSmallest(InformativeSet(i), steps + k)

\* C13 as stated: whenever the Group A sum is 0 or the reproductive-age flag
\* is false, the pregnancy label is "n/a" with a blank likelihood, also
\* when the sum is 0 and the flag is true.
C13_NotApplicableAsStated ==
    pc = "preg_done" =>
        ((SumRange(prob, 0, 3) = Zero \/ reproductiveAge = 0)
            => locals.preg = <<"n/a", Blank>>)

\* C13, amended: when the reproductive-age flag is false the pregnancy label
\* is "n/a" with a blank likelihood; when the flag is true and the Group A
\* sum is 0 the later rule overwrites it and the label is "indeterminate",
\* with a blank likelihood.
C13_NotApplicableOrOverwritten ==
    pc = "preg_done" =>
        /\ reproductiveAge = 0 => locals.preg = <<"n/a", Blank>>
        /\ (reproductiveAge = 1 /\ SumRange(prob, 0, 3) = Zero)
              => locals.preg = <<"indeterminate", Blank>>

C13_Witness ==
    /\ pc = "preg_done"
    /\ reproductiveAge = 1
    /\ SumRange(prob, 0, 3) = Zero
    /\ locals.preg = <<"indeterminate", Blank>>

\* C14: the reproductive-age flag of a record is set only if, in the checked
\* record, the female indicator (position 4) was answered affirmative and
\* one of positions 16, 17, 18 was answered affirmative; a record whose
\* female indicator was answered negative gets pregnancy label "n/a".
C14_FlagOnlyForAffirmativeFemale ==
    /\ (pc = "infer" /\ reproductiveAge = 1) =>
            LET checked == datacheck5(CanonicalOf(i))
            IN  /\ checked[4] = "1"
                /\ checked[16] = "1" \/ checked[17] = "1" \/ checked[18] = "1"
    /\ \A k \in DOMAIN va_input :
            (Handled(k) /\ VA_result[k] # <<>> /\ datacheck5(CanonicalOf(k))[4] = "0")
                => VA_result[k][4] = "n/a"

\* the position, in the Group B slice of prob, of the cause holding the
\* largest value among the positions not in taken (the first one on a tie)
LargestOutside(taken) ==
    CHOOSE k \in (0..60) \ taken :
        \A j \in (0..60) \ taken :
            \/ RLess(prob[3 + j], prob[3 + k])
            \/ (prob[3 + j] = prob[3 + k] /\ j >= k)

\* C15: when the Group B maximum is at least 0.4, cause1, cause2 and cause3
\* are the names of the causes holding the largest, second largest and
\* third largest values of the Group B slice, each likelihood is
\* round(100 x the value of the cause named next to it), and cause2 and
\* cause3 are blank exactly when their value is below half the maximum.
C15_NamesFollowValues ==
    (pc \in {"fn_ranked", "fn_done"} /\ ~RLess(MaxRange(prob, 3, 64), IndeterminateThreshold)) =>
        LET first  == LargestOutside({})
            second == LargestOutside({first})
            third  == LargestOutside({first, second})
            half   == RMul(Rat(1, 2), prob[3 + first])
            r      == locals.rank
        IN  /\ r.cause1 = prob_names(3 + first)
            /\ r.lik1 = ToString(Round100(prob[3 + first]))
            /\ IF RLess(prob[3 + second], half)
               THEN r.cause2 = Blank /\ r.lik2 = Blank
               ELSE /\ r.cause2 = prob_names(3 + second)
                    /\ r.lik2 = ToString(Round100(prob[3 + second]))
            /\ IF RLess(prob[3 + third], half)
               THEN r.cause3 = Blank /\ r.lik3 = Blank
               ELSE /\ r.cause3 = prob_names(3 + third)
                    /\ r.lik3 = ToString(Round100(prob[3 + third]))

\* C16: in the returned dictionary the "ID" list and the "VA5" table have
\* the same number of entries, and the k-th identifier is the ID field of
\* the k-th row of the table.
C16_IdListMatchesTable ==
    pc = "done" =>
        /\ Len(out.ID) = Len(out.VA5)
        /\ \A k \in 1..Len(out.ID) :
              /\ k <= Len(out.VA5)
              /\ out.VA5[k].val # <<>>
              /\ out.ID[k].val = out.VA5[k].val[1]

====
